---- MODULE Spec2Model ----
(***************************************************************************)
(* A model of the RAG store of recoveryos (src/rag.py): the chunker, the   *)
(* persisted vector store (embeddings.npy, metadata.json, manifest.json),  *)
(* the store lock, and the three public operations ingest_documents,       *)
(* retrieve and clear_store.                                               *)
(*                                                                         *)
(* The module holds several specifications over one set of variables:      *)
(*   SpecChunk     _chunk_text run as a loop, one iteration per step       *)
(*   SpecLoad      _ensure_store_shapes applied to every shape of files    *)
(*   SpecRetrieve  the scoring / selection / filtering part of retrieve    *)
(*   SpecMmr       the same part on stores with near-duplicate rows        *)
(*   SpecMmrCall   _mmr called on its own, for every N and top_k from 0    *)
(*   Spec          threads calling ingest_documents, retrieve, clear_store *)
(*   SpecSeq       the same calls made by one thread, one after another    *)
(* Each specification moves only its own variables; the others keep the    *)
(* value their idle initial condition gives them.                          *)
(***************************************************************************)
EXTENDS Integers, Sequences, FiniteSets, TLC

(***************************************************************************)
(* Bounds of the model.                                                    *)
(***************************************************************************)
MaxTextLen == 5
MaxChunkSize == 3
MaxRows == 2     \* rows of a persisted store handed to the load on its own
MaxN == 3        \* rows of the matrix handed to the scoring on its own
MaxK == 3        \* the largest k asked of retrieve
MaxCalls == 2    \* calls of the public API in one run of the process

(***************************************************************************)
(* Program constants.                                                      *)
(***************************************************************************)
CHUNK_SIZE == 700
OVERLAP == 120
FALLBACK_DIM == 384   \* `_DIM or 384`
LAMBDA_TENTHS == 7    \* lambda_mult = 0.7, in tenths

VARIABLES
    \* ---- _chunk_text (src/rag.py:96-122)
    text,        \* the text being chunked, a sequence of characters
    chunk_size,
    overlap,
    start,       \* the window start
    chunks,      \* the chunks appended so far
    chunk_pc,    \* "idle" | "call" | "loop" | "done"
    visited,     \* history: the window starts the loop has already processed
    \* ---- the store directory (src/rag.py:23-25)
    embeddings_file,  \* NoFile | Partial | NotMatrix | [rows, dim, ver]
    metadata_file,    \* NoFile | Partial | NotList | [recs, ver]
    manifest_file,    \* NoFile | [dim, count, ver]
    \* ---- _ensure_store_shapes applied on its own (src/rag.py:125-146)
    load_dim,    \* the expected dimension passed in
    load_out,    \* "none", or what the call did
    \* ---- the scoring part of retrieve applied on its own (src/rag.py:310-338)
    r_emb,       \* the copied matrix: a sequence of unit vectors
    r_q,         \* the encoded query
    r_k,
    r_min_score,
    r_use_mmr,
    r_idxs,      \* the selected indices (0-based), in selection order
    r_results,   \* the returned list: records [idx, score]
    r_pc,        \* "idle" | "call" | "done"
    \* ---- the process: module globals and threads calling the public API
    store_lock,  \* _STORE_LOCK: "free" or the thread that holds it
    model_loaded,\* _MODEL is not None
    model_dim,   \* _DIM, 0 for None
    live_dim,    \* the dimension of the vectors the provider's model returns
    pc,          \* where each thread is
    loc,         \* each thread's local variables
    ret,         \* how each thread's last call ended
    n_calls,     \* history: calls of the public API made so far
    completed    \* history: the saves (by ver) that ran to their end

chunkVars == <<text, chunk_size, overlap, start, chunks, chunk_pc, visited>>
fileVars == <<embeddings_file, metadata_file, manifest_file>>
loadVars == <<load_dim, load_out>>
scoreVars == <<r_emb, r_q, r_k, r_min_score, r_use_mmr, r_idxs, r_results, r_pc>>

procVars == <<store_lock, model_loaded, model_dim, live_dim, pc, loc, ret, n_calls, completed>>

vars == <<chunkVars, fileVars, loadVars, scoreVars, procVars>>

(***************************************************************************)
(* Helpers on integers and sequences.                                      *)
(***************************************************************************)
Min(a, b) == IF a <= b THEN a ELSE b
Max(a, b) == IF a >= b THEN a ELSE b

SetMax(S) == CHOOSE x \in S : \A y \in S : y <= x
SetMin(S) == CHOOSE x \in S : \A y \in S : x <= y

RECURSIVE SeqsUpTo(_, _)
\* all sequences over S of length at most n
SeqsUpTo(S, n) ==
    IF n = 0 THEN {<<>>}
    ELSE LET shorter == SeqsUpTo(S, n - 1)
         IN  shorter \cup {Append(s, x) : s \in {t \in shorter : Len(t) = n - 1}, x \in S}

(***************************************************************************)
(* Strings.  A text is a sequence over Chars; "n" stands for the newline.  *)
(* Python's str.strip() with no argument removes leading and trailing      *)
(* whitespace: here the space and the newline.                             *)
(***************************************************************************)
Chars == {"a", ".", " ", "n"}
Whitespace == {" ", "n"}

\* s[from:to] of Python, 0-based, to exclusive, for 0 <= from, to <= len(s)
Slice(s, from, to) == SubSeq(s, from + 1, to)

\* str.rstrip() in the place of str.strip(): leading whitespace stays
StripTrailingOnly(s) ==
    LET keep == {i \in 1..Len(s) : s[i] \notin Whitespace}
    IN  IF keep = {} THEN <<>> ELSE SubSeq(s, 1, SetMax(keep))

\* str.strip()
Strip(s) ==
    LET keep == {i \in 1..Len(s) : s[i] \notin Whitespace}
    IN  IF keep = {} THEN <<>> ELSE SubSeq(s, SetMin(keep), SetMax(keep))

\* str.rfind(c): the 0-based index of the last c in s, or -1
RFind(s, c) ==
    LET at == {i \in 1..Len(s) : s[i] = c}
    IN  IF at = {} THEN -1 ELSE SetMax(at) - 1

\* int(0.6 * n) for n >= 0
SixTenths(n) == (6 * n) \div 10

(***************************************************************************)
(* _chunk_text, src/rag.py:96-122.                                         *)
(***************************************************************************)
\* lines 107-109: the window of the iteration that starts at s
Window(t, s, size) == Slice(t, s, Min(Len(t), s + size))

\* lines 110-112: where the window is cut
BreakIdx(window) ==
    LET b == Max(RFind(window, "."), RFind(window, "n"))
    IN  IF b < SixTenths(Len(window)) THEN Len(window) ELSE b

\* lines 117-119: the next window start
NextStart(s, break_idx, ov) ==
    LET n == s + break_idx - ov
    IN  IF n < 0 THEN 0 ELSE n

\* lines 98-105: strip, the two early returns, or enter the loop
ChunkEnter ==
    /\ chunk_pc = "call"
    /\ LET t == Strip(text)
       IN  /\ text' = t
           /\ IF t = <<>>
              THEN /\ chunks' = <<>>
                   /\ chunk_pc' = "done"
              ELSE IF Len(t) <= chunk_size
              THEN /\ chunks' = <<t>>
                   /\ chunk_pc' = "done"
              ELSE /\ chunks' = <<>>
                   /\ chunk_pc' = "loop"
    /\ start' = 0
    /\ UNCHANGED <<chunk_size, overlap, visited>>
    /\ UNCHANGED <<fileVars, loadVars, scoreVars, procVars>>

\* lines 106-121: one iteration of the while loop.  The loop's control depends
\* on start and text alone, so a run that comes back to a start it has already
\* processed repeats for ever; the model follows a run up to that point.
ChunkIter ==
    /\ chunk_pc = "loop"
    /\ start \notin visited
    /\ LET window == Window(text, start, chunk_size)
           break_idx == BreakIdx(window)
           chunk == Strip(Slice(window, 0, break_idx))
           nxt == NextStart(start, break_idx, overlap)
       IN  /\ chunks' = IF chunk # <<>> THEN Append(chunks, chunk) ELSE chunks
           /\ start' = nxt
           /\ chunk_pc' = IF nxt >= Len(text) THEN "done" ELSE "loop"
    /\ visited' = visited \cup {start}
    /\ UNCHANGED <<text, chunk_size, overlap>>
    /\ UNCHANGED <<fileVars, loadVars, scoreVars, procVars>>

ChunkNext ==
    \/ ChunkEnter
    \/ ChunkIter


(***************************************************************************)
(* The persisted store.  A file is a record: kind "none" (no such file),   *)
(* "partial" (a half-written or unparseable file: np.load / json.loads     *)
(* raise on it), or its parsed content.  A matrix row is named by the text *)
(* whose embedding it holds; ver names the save that wrote the file.       *)
(***************************************************************************)
Texts == {"x", "y"}
Dims == {FALLBACK_DIM, 768}

NoFile == [kind |-> "none"]
Partial == [kind |-> "partial"]
\* a well-formed .npy file whose array is not 2-dimensional
NotMatrix == [kind |-> "notmatrix"]
\* well-formed JSON that is no list: len() raises on it
NotList == [kind |-> "notlist"]

MatrixFile(rows, dim, ver) == [kind |-> "matrix", rows |-> rows, dim |-> dim, ver |-> ver]
ListFile(recs, ver) == [kind |-> "list", recs |-> recs, ver |-> ver]
ManifestFile(dim, count, ver) == [kind |-> "manifest", dim |-> dim, count |-> count, ver |-> ver]

\* Path.exists()
Exists(f) == f.kind # "none"

\* a chunk record (lines 239-247): id is <<doc_id>> for a single-chunk
\* document and <<doc_id, i>> for doc_id#i
ChunkRecord(doc_id, i, n, c) ==
    [id |-> IF n > 1 THEN <<doc_id, i>> ELSE <<doc_id>>,
     doc_id |-> doc_id, content |-> c, chunk_index |-> i]

(***************************************************************************)
(* _ensure_store_shapes, src/rag.py:125-146.                               *)
(***************************************************************************)
\* np.empty((0, dim)), []
EmptyStore(dim) ==
    [raised |-> FALSE, emb |-> [rows |-> <<>>, dim |-> dim], meta |-> <<>>]

Raised(dim) ==
    [raised |-> TRUE, emb |-> [rows |-> <<>>, dim |-> dim], meta |-> <<>>]

\* a mutant of TryLoad: the column check of line 131 is missing
TryLoadNoDimCheck(embF, metaF, dim) ==
    IF embF.kind = "partial" \/ metaF.kind = "partial" THEN Raised(dim)
    ELSE IF embF.kind = "notmatrix" THEN EmptyStore(dim)
    ELSE IF metaF.kind = "notlist" THEN Raised(dim)
    ELSE IF Len(metaF.recs) # Len(embF.rows) THEN EmptyStore(dim)
    ELSE [raised |-> FALSE, emb |-> [rows |-> embF.rows, dim |-> embF.dim],
          meta |-> metaF.recs]

\* lines 129-143, the body of the try: what it returns, or that it raised
TryLoad(embF, metaF, dim) ==
    IF embF.kind = "partial" \/ metaF.kind = "partial" THEN Raised(dim)
    ELSE IF embF.kind = "notmatrix" \/ embF.dim # dim THEN EmptyStore(dim)
    ELSE IF metaF.kind = "notlist" THEN Raised(dim)
    ELSE IF Len(metaF.recs) # Len(embF.rows) THEN EmptyStore(dim)
    ELSE [raised |-> FALSE, emb |-> [rows |-> embF.rows, dim |-> embF.dim],
          meta |-> metaF.recs]

\* lines 127-146: the existence test, the try, the except that falls through
\* to the empty store
EnsureStoreShapes(embF, metaF, dim) ==
    IF Exists(embF) /\ Exists(metaF)
    THEN LET r == TryLoad(embF, metaF, dim)
         IN  IF r.raised THEN EmptyStore(dim) ELSE r
    ELSE EmptyStore(dim)

\* every shape of embeddings file and metadata file
EmbFiles ==
    {NoFile, Partial, NotMatrix}
        \cup {MatrixFile(rows, d, 0) : rows \in SeqsUpTo(Texts, MaxRows), d \in Dims}

MetaFiles ==
    {NoFile, Partial, NotList}
        \cup {ListFile([i \in 1..Len(cs) |-> ChunkRecord("d", i - 1, Len(cs), cs[i])], 0) :
                cs \in SeqsUpTo(Texts, MaxRows)}

LoadCall ==
    /\ ~load_out.called
    /\ load_out' = [called |-> TRUE,
                    res |-> EnsureStoreShapes(embeddings_file, metadata_file, load_dim)]
    /\ UNCHANGED <<load_dim, fileVars, chunkVars, scoreVars, procVars>>


(***************************************************************************)
(* Vectors and scores.  A unit vector is a pair of integers in fifths, a   *)
(* dot product of two of them is in twenty-fifths, and a similarity is     *)
(* kept in hundredths: 100 is 1.0.  Positions in a matrix or a list are    *)
(* 1-based: position i is the index i - 1 of the code.                     *)
(***************************************************************************)
UnitVecs == {<<5, 0>>, <<4, 3>>, <<3, 4>>, <<0, 5>>, <<-5, 0>>}
MinScores == {25, 60, 90}

Dot(u, v) == u[1] * v[1] + u[2] * v[2]

\* np.dot(emb, q), line 314 and line 183
Sims(emb, q) == [i \in 1..Len(emb) |-> 4 * Dot(emb[i], q)]

\* np.clip(x, -1.0, 1.0)
Clip(x) == Max(-100, Min(100, x))

Reverse(s) == [i \in 1..Len(s) |-> s[Len(s) + 1 - i]]

\* s[:k] for k >= 0
Take(s, k) == SubSeq(s, 1, Min(k, Len(s)))

RECURSIVE SortedSeq(_)
\* the elements of a set of integers in ascending order
SortedSeq(S) ==
    IF S = {} THEN <<>>
    ELSE LET m == SetMin(S) IN <<m>> \o SortedSeq(S \ {m})

\* np.argmax: the first position of the largest value
ArgMax(vals) ==
    SetMin({i \in 1..Len(vals) : \A j \in 1..Len(vals) : vals[j] <= vals[i]})

Perms(n) == {p \in [1..n -> 1..n] : \A i, j \in 1..n : p[i] = p[j] => i = j}

\* np.argsort(sims), line 319: the default sort is not stable, so any
\* permutation that puts the values in ascending order is a possible result
ArgSorts(sims) ==
    {p \in Perms(Len(sims)) :
        \A i \in 1..(Len(sims) - 1) : sims[p[i]] <= sims[p[i + 1]]}

\* a mutant of TopK: the reversal [::-1] is missing
TopKNoReverse(p, k) == Take(p, k)

\* np.argsort(sims)[::-1][:k], line 319, given the permutation argsort made
TopK(p, k) == Take(Reverse(p), k)

(***************************************************************************)
(* _mmr, src/rag.py:167-204.  list(candidates) of a set of small           *)
(* non-negative integers is in ascending order (CPython).                  *)
(***************************************************************************)
\* line 188: np.clip(np.dot(doc_vecs, doc_vecs.T), -1.0, 1.0)
DocSim(doc_vecs, i, j) == Clip(4 * Dot(doc_vecs[i], doc_vecs[j]))

\* a mutant of MmrScores: the redundancy penalty of line 199 is missing
MmrScoresNoPenalty(rel, doc_vecs, cand_list, selected) ==
    [i \in 1..Len(cand_list) |-> LAMBDA_TENTHS * rel[cand_list[i]]]

\* a mutant of MmrScores: the weights of relevance and redundancy are swapped
MmrScoresWeightsSwapped(rel, doc_vecs, cand_list, selected) ==
    [i \in 1..Len(cand_list) |->
        LET max_red == SetMax({DocSim(doc_vecs, cand_list[i], selected[j]) :
                                  j \in 1..Len(selected)})
        IN  (10 - LAMBDA_TENTHS) * rel[cand_list[i]] - LAMBDA_TENTHS * max_red]

\* lines 197-199: the MMR score of each candidate, in thousandths
MmrScores(rel, doc_vecs, cand_list, selected) ==
    [i \in 1..Len(cand_list) |->
        LET max_red == SetMax({DocSim(doc_vecs, cand_list[i], selected[j]) :
                                  j \in 1..Len(selected)})
        IN  LAMBDA_TENTHS * rel[cand_list[i]] - (10 - LAMBDA_TENTHS) * max_red]

RECURSIVE MmrLoop(_, _, _, _, _)
\* lines 190-203: n more iterations of the for loop
MmrLoop(rel, doc_vecs, selected, candidates, n) ==
    IF n <= 0 THEN selected
    ELSE IF selected = <<>>
    THEN LET idx == ArgMax(rel)
         IN  MmrLoop(rel, doc_vecs, <<idx>>, candidates \ {idx}, n - 1)
    ELSE LET cand_list == SortedSeq(candidates)
             mmr_scores == MmrScores(rel, doc_vecs, cand_list, selected)
             idx == cand_list[ArgMax(mmr_scores)]
         IN  MmrLoop(rel, doc_vecs, Append(selected, idx), candidates \ {idx}, n - 1)

\* a mutant of Mmr: the loop of line 190 runs N times, whatever top_k is
MmrTakesAll(query_vec, doc_vecs, top_k) ==
    LET N == Len(doc_vecs)
    IN  IF N = 0 THEN <<>>
        ELSE MmrLoop(Sims(doc_vecs, query_vec), doc_vecs, <<>>, 1..N, N)

\* lines 179-204
Mmr(query_vec, doc_vecs, top_k) ==
    LET N == Len(doc_vecs)
    IN  IF N = 0 THEN <<>>
        ELSE MmrLoop(Sims(doc_vecs, query_vec), doc_vecs, <<>>, 1..N, Min(top_k, N))

\* a call of _mmr on its own
MmrCall ==
    /\ r_pc = "call"
    /\ r_idxs' = Mmr(r_q, r_emb, r_k)
    /\ r_pc' = "done"
    /\ UNCHANGED <<r_emb, r_q, r_k, r_min_score, r_use_mmr, r_results>>
    /\ UNCHANGED <<chunkVars, fileVars, loadVars, procVars>>

(***************************************************************************)
(* retrieve, src/rag.py:310-338: scoring, selection, filtering.            *)
(***************************************************************************)
\* line 316
UsesMmr(use_mmr, k, n) == use_mmr /\ k > 1 /\ n > k

\* lines 316-319: the index lists the selection can produce
Selections(emb, q, k, use_mmr) ==
    IF UsesMmr(use_mmr, k, Len(emb))
    THEN {Mmr(q, emb, k)}
    ELSE {TopK(p, k) : p \in ArgSorts(Sims(emb, q))}

\* a mutant of Keeps: the cutoff drops a score equal to min_score
KeepsStrict(score, min_score) == score > min_score

\* lines 324-325: `if score < min_score: continue`
Keeps(score, min_score) == ~(score < min_score)

\* lines 321-328: the scored copies of the selected records that pass the cutoff
Results(idxs, sims, min_score) ==
    SelectSeq([i \in 1..Len(idxs) |-> [idx |-> idxs[i], score |-> Clip(sims[idxs[i]])]],
              LAMBDA r : Keeps(r.score, min_score))

ScoreCall ==
    /\ r_pc = "call"
    /\ \E idxs \in Selections(r_emb, r_q, r_k, r_use_mmr) :
          /\ r_idxs' = idxs
          /\ r_results' = Results(idxs, Sims(r_emb, r_q), r_min_score)
    /\ r_pc' = "done"
    /\ UNCHANGED <<r_emb, r_q, r_k, r_min_score, r_use_mmr>>
    /\ UNCHANGED <<chunkVars, fileVars, loadVars, procVars>>

(***************************************************************************)
(* The process: two threads calling ingest_documents, retrieve and         *)
(* clear_store.  A step is what a thread does between two points where     *)
(* another thread can see or change the shared state: the module globals   *)
(* _MODEL and _DIM, the lock, the three files.                             *)
(***************************************************************************)
Threads == {"t1", "t2"}

\* the provider is deterministic: each text has one unit vector
Embed(t) == IF t = "x" THEN <<5, 0>> ELSE <<3, 4>>

\* a document's content: "" is empty after trimming, "x" and "y" are short
\* texts, "long" stands for a content of more than CHUNK_SIZE characters
Doc(id, content) == [id |-> id, content |-> content]

IsLong(content) == content = "long"

Batches ==
    {<<>>,
     <<Doc("a", "")>>,
     <<Doc("b", "x")>>,
     <<Doc("a", ""), Doc("c", "y")>>,
     <<Doc("b", "x"), Doc("c", "y")>>,
     <<Doc("l", "long")>>}

\* "" is the empty or whitespace-only query
Queries == {"", "x", "y"}
RetrieveKs == {1, 2}
DefaultMinScore == 25

\* the provider call and the filesystem writes can fail
ProviderMayFail == TRUE
WriteMayFail == TRUE

\* blank is history: the query of the retrieve under way is empty after trimming
NoLocals ==
    [op |-> "none", dim |-> 0, emb |-> [rows |-> <<>>, dim |-> 0, ver |-> 0],
     meta |-> [recs |-> <<>>, ver |-> 0], ver |-> 0, blank |-> FALSE]

\* query texts as line 290 sees them: the empty one, a whitespace-only one, and
\* two with a word in them
QueryTexts == {<<>>, <<" ", "n">>, <<"a">>, <<" ", "a", " ">>}

\* a mutant of IsBlank: the test of line 290 without its second half
IsBlankNoStrip(query) == query = <<>>

\* line 290: `not query or not query.strip()`
IsBlank(query) == query = <<>> \/ Strip(query) = <<>>

\* line 235 for a content _chunk_text returns from: [] or [content]
ChunksOf(content) == IF content = "" THEN <<>> ELSE <<content>>

RECURSIVE NewMeta(_)
\* lines 226-248: the records of the batch, in document then chunk order
NewMeta(docs) ==
    IF docs = <<>> THEN <<>>
    ELSE LET doc == Head(docs)
             cs == ChunksOf(doc.content)
         IN  [i \in 1..Len(cs) |-> ChunkRecord(doc.id, i - 1, Len(cs), cs[i])]
                 \o NewMeta(Tail(docs))

\* the texts list of lines 226-237
TextsOf(new_meta) == [i \in 1..Len(new_meta) |-> new_meta[i].content]

\* a mutant of Acquirable: the lock is taken without waiting for it
AcquirableAlways(lock) == TRUE

\* threading.Lock.acquire returns once the lock is free
Acquirable(lock) == lock = "free"

\* a mutant of LockAfterCopy: retrieve keeps the lock while it encodes and scores
LockKeptAfterCopy(t) == t

\* line 308/311: leaving the `with _STORE_LOCK` block of retrieve
LockAfterCopy(t) == "free"

\* a mutant of LockAfterGiveUp: the lock stays with a retrieve that gives up
LockKeptAfterGiveUp(t) == t

\* lines 306-308 and 340-342: a return or an exception inside the
\* `with _STORE_LOCK` block of retrieve leaves the block
LockAfterGiveUp(t) == "free"

\* the store directory as a call finds it
StoreDir ==
    [embeddings |-> embeddings_file, metadata |-> metadata_file,
     manifest |-> manifest_file]

\* a mutant of LoadStore: the load also wants a manifest that agrees with the
\* matrix
LoadStoreChecksManifest(dir, dim) ==
    IF /\ dir.manifest.kind = "manifest"
       /\ dir.embeddings.kind = "matrix"
       /\ dir.manifest.dim = dir.embeddings.dim
       /\ dir.manifest.count = Len(dir.embeddings.rows)
    THEN EnsureStoreShapes(dir.embeddings, dir.metadata, dim)
    ELSE EmptyStore(dim)

\* _ensure_store_shapes(dim) on a directory: lines 127-130 open embeddings.npy
\* and metadata.json, and no other file
LoadStore(dir, dim) == EnsureStoreShapes(dir.embeddings, dir.metadata, dim)

\* a mutant of CopyStore: retrieve without the try of line 300, so the error
\* of a missing or unparseable file reaches the caller
CopyStoreUncaught(dir, dim) ==
    IF dir.embeddings.kind # "matrix" \/ dir.metadata.kind # "list"
    THEN [how |-> "raised"]
    ELSE IF \/ dir.embeddings.dim # dim
            \/ Len(dir.metadata.recs) # Len(dir.embeddings.rows)
    THEN [how |-> "mismatch"]
    ELSE [how |-> "copied",
          emb |-> [rows |-> dir.embeddings.rows, dim |-> dir.embeddings.dim,
                   ver |-> dir.embeddings.ver],
          meta |-> [recs |-> dir.metadata.recs, ver |-> dir.metadata.ver]]

\* lines 302-308 and 340-342 on a directory: the copy retrieve makes, or how it
\* gives up: a missing or unparseable file raises into the except, a wrong
\* shape returns []
CopyStore(dir, dim) ==
    IF dir.embeddings.kind # "matrix" \/ dir.metadata.kind # "list"
    THEN [how |-> "error"]
    ELSE IF \/ dir.embeddings.dim # dim
            \/ Len(dir.metadata.recs) # Len(dir.embeddings.rows)
    THEN [how |-> "mismatch"]
    ELSE [how |-> "copied",
          emb |-> [rows |-> dir.embeddings.rows, dim |-> dir.embeddings.dim,
                   ver |-> dir.embeddings.ver],
          meta |-> [recs |-> dir.metadata.recs, ver |-> dir.metadata.ver]]

\* a mutant of Extend: the batch replaces what the load returned
ExtendDropsOld(old, new) == new

\* lines 265-266: np.vstack([emb, new_vecs]) and meta.extend(new_meta)
Extend(old, new) == old \o new

\* a mutant of OnDimChange: what was loaded stays, whatever the new dimension
KeptOnDimChange(changed, loaded) == loaded

\* lines 256-262: a batch of another dimension empties what was loaded
OnDimChange(changed, loaded) == IF changed THEN <<>> ELSE loaded

\* a call returns (or raises) to its caller
Finish(t, outcome) ==
    /\ pc' = [pc EXCEPT ![t] = "idle"]
    /\ loc' = [loc EXCEPT ![t] = NoLocals]
    /\ ret' = [ret EXCEPT ![t] = outcome]

\* an exception leaves the `with _STORE_LOCK` block of ingest_documents
RaiseUnderLock(t) ==
    /\ store_lock' = "free"
    /\ Finish(t, [op |-> loc[t].op, how |-> "raised"])

Goto(t, where) ==
    /\ pc' = [pc EXCEPT ![t] = where]
    /\ UNCHANGED ret

(***************************************************************************)
(* _get_model, src/rag.py:46-55, followed by `dim = _DIM or 384`.          *)
(***************************************************************************)
AfterModel(t) == IF loc[t].op = "ingest" THEN "i_lock" ELSE "r_exists"

\* line 48 finds _MODEL set; line 55; line 220 / 294
GetModelLoaded(t) ==
    /\ pc[t] = "gm_check"
    /\ model_loaded
    /\ loc' = [loc EXCEPT ![t].dim = IF model_dim = 0 THEN FALLBACK_DIM ELSE model_dim]
    /\ Goto(t, AfterModel(t))
    /\ UNCHANGED <<store_lock, model_loaded, model_dim, live_dim, n_calls, completed>>
    /\ UNCHANGED <<chunkVars, fileVars, loadVars, scoreVars>>

\* lines 48-50: _MODEL is unset; the model loads and _MODEL is set, or the
\* constructor raises
GetModelLoad(t) ==
    /\ pc[t] = "gm_check"
    /\ ~model_loaded
    /\ \/ /\ model_loaded' = TRUE
          /\ Goto(t, "gm_probe")
          /\ UNCHANGED loc
       \/ /\ ProviderMayFail
          /\ Finish(t, [op |-> loc[t].op, how |-> "raised"])
          /\ UNCHANGED model_loaded
    /\ UNCHANGED <<store_lock, model_dim, live_dim, n_calls, completed>>
    /\ UNCHANGED <<chunkVars, fileVars, loadVars, scoreVars>>

\* lines 52-55: the probe sets _DIM, or raises and leaves _MODEL set, _DIM unset
GetModelProbe(t) ==
    /\ pc[t] = "gm_probe"
    /\ \/ /\ model_dim' = live_dim
          /\ loc' = [loc EXCEPT ![t].dim = live_dim]
          /\ Goto(t, AfterModel(t))
       \/ /\ ProviderMayFail
          /\ Finish(t, [op |-> loc[t].op, how |-> "raised"])
          /\ UNCHANGED model_dim
    /\ UNCHANGED <<store_lock, model_loaded, live_dim, n_calls, completed>>
    /\ UNCHANGED <<chunkVars, fileVars, loadVars, scoreVars>>

(***************************************************************************)
(* ingest_documents, src/rag.py:210-276 (chunk=True).                      *)
(***************************************************************************)
\* lines 215-219: the empty document list returns at once.  The documents of
\* a non-empty list are first read at line 228, and are drawn there.
IngestCall(t) ==
    /\ pc[t] = "idle"
    /\ n_calls < MaxCalls
    /\ n_calls' = n_calls + 1
    /\ \/ Finish(t, [op |-> "ingest", how |-> "noop"])
       \/ /\ loc' = [loc EXCEPT ![t] = [NoLocals EXCEPT !.op = "ingest",
                                                          !.ver = n_calls + 1]]
          /\ Goto(t, "gm_check")
    /\ UNCHANGED <<store_lock, model_loaded, model_dim, live_dim, completed>>
    /\ UNCHANGED <<chunkVars, fileVars, loadVars, scoreVars>>

\* line 222
IngestLock(t) ==
    /\ pc[t] = "i_lock"
    /\ Acquirable(store_lock)
    /\ store_lock' = t
    /\ Goto(t, "i_load")
    /\ UNCHANGED <<model_loaded, model_dim, live_dim, loc, n_calls, completed>>
    /\ UNCHANGED <<chunkVars, fileVars, loadVars, scoreVars>>

\* lines 223-266: load; build the batch (_chunk_text does not return from a
\* content longer than chunk_size when overlap = 120); the no-op return; encode
\* the batch, which can raise; rebuild on a changed dimension; append
IngestBuild(t) ==
    /\ pc[t] = "i_load"
    /\ \E docs \in Batches \ {<<>>} :
       LET st == LoadStore(StoreDir, loc[t].dim)
           new_meta == NewMeta(docs)
           changed == live_dim # loc[t].dim
           rows == OnDimChange(changed, st.emb.rows)
           recs == OnDimChange(changed, st.meta)
       IN  IF \E i \in 1..Len(docs) : IsLong(docs[i].content)
           THEN /\ Goto(t, "i_chunking")
                /\ UNCHANGED <<store_lock, loc>>
           ELSE IF new_meta = <<>>
           THEN /\ store_lock' = "free"
                /\ Finish(t, [op |-> "ingest", how |-> "noop"])
           ELSE \/ /\ loc' = [loc EXCEPT ![t].emb = [rows |-> Extend(rows, TextsOf(new_meta)),
                                                       dim |-> live_dim,
                                                       ver |-> loc[t].ver],
                                          ![t].meta = [recs |-> Extend(recs, new_meta),
                                                       ver |-> loc[t].ver],
                                          ![t].dim = live_dim]
                   /\ Goto(t, "i_save_emb")
                   /\ UNCHANGED store_lock
                \/ /\ ProviderMayFail
                   /\ RaiseUnderLock(t)
    /\ UNCHANGED <<model_loaded, model_dim, live_dim, n_calls, completed>>
    /\ UNCHANGED <<chunkVars, fileVars, loadVars, scoreVars>>

\* line 152: np.save opens embeddings.npy for writing, which truncates it
IngestSaveOpen(t) ==
    /\ pc[t] = "i_save_emb"
    /\ \/ /\ embeddings_file' = Partial
          /\ Goto(t, "i_save_emb2")
          /\ UNCHANGED <<store_lock, loc>>
       \/ /\ WriteMayFail
          /\ RaiseUnderLock(t)
          /\ UNCHANGED embeddings_file
    /\ UNCHANGED <<metadata_file, manifest_file>>
    /\ UNCHANGED <<model_loaded, model_dim, live_dim, n_calls, completed>>
    /\ UNCHANGED <<chunkVars, loadVars, scoreVars>>

\* line 152: np.save writes the array into the open file
IngestSaveWrite(t) ==
    /\ pc[t] = "i_save_emb2"
    /\ \/ /\ embeddings_file' = MatrixFile(loc[t].emb.rows, loc[t].emb.dim, loc[t].ver)
          /\ Goto(t, "i_save_meta")
          /\ UNCHANGED <<store_lock, loc>>
       \/ /\ WriteMayFail
          /\ RaiseUnderLock(t)
          /\ UNCHANGED embeddings_file
    /\ UNCHANGED <<metadata_file, manifest_file>>
    /\ UNCHANGED <<model_loaded, model_dim, live_dim, n_calls, completed>>
    /\ UNCHANGED <<chunkVars, loadVars, scoreVars>>

\* line 153: _atomic_write_json(METADATA_FILE, meta), lines 58-62
IngestSaveMeta(t) ==
    /\ pc[t] = "i_save_meta"
    /\ \/ /\ metadata_file' = ListFile(loc[t].meta.recs, loc[t].ver)
          /\ Goto(t, "i_save_man")
          /\ UNCHANGED <<store_lock, loc>>
       \/ /\ WriteMayFail
          /\ RaiseUnderLock(t)
          /\ UNCHANGED metadata_file
    /\ UNCHANGED <<embeddings_file, manifest_file>>
    /\ UNCHANGED <<model_loaded, model_dim, live_dim, n_calls, completed>>
    /\ UNCHANGED <<chunkVars, loadVars, scoreVars>>

\* lines 154-276: _save_manifest, then the end of the with block
IngestSaveManifest(t) ==
    /\ pc[t] = "i_save_man"
    /\ \/ /\ manifest_file' = ManifestFile(loc[t].dim, Len(loc[t].emb.rows), loc[t].ver)
          /\ completed' = completed \cup {loc[t].ver}
          /\ store_lock' = "free"
          /\ Finish(t, [op |-> "ingest", how |-> "ok"])
       \/ /\ WriteMayFail
          /\ RaiseUnderLock(t)
          /\ UNCHANGED <<manifest_file, completed>>
    /\ UNCHANGED <<embeddings_file, metadata_file>>
    /\ UNCHANGED <<model_loaded, model_dim, live_dim, n_calls>>
    /\ UNCHANGED <<chunkVars, loadVars, scoreVars>>

(***************************************************************************)
(* retrieve, src/rag.py:279-342, with min_score at its default.            *)
(***************************************************************************)
Empty(how) == [op |-> "retrieve", how |-> how, results |-> <<>>]

\* lines 290-293: the empty or whitespace-only query returns at once.  The
\* text of another query is read again at line 311, k and use_mmr at line 316,
\* and they are drawn there.
RetrieveCall(t) ==
    /\ pc[t] = "idle"
    /\ n_calls < MaxCalls
    /\ n_calls' = n_calls + 1
    /\ \E query \in QueryTexts :
          IF IsBlank(query)
          THEN Finish(t, [op |-> "retrieve", how |-> "empty_query",
                          results |-> <<>>, query |-> query])
          ELSE /\ loc' = [loc EXCEPT ![t] = [NoLocals EXCEPT !.op = "retrieve",
                                                             !.blank = Strip(query) = <<>>]]
               /\ Goto(t, "gm_check")
    /\ UNCHANGED <<store_lock, model_loaded, model_dim, live_dim, completed>>
    /\ UNCHANGED <<chunkVars, fileVars, loadVars, scoreVars>>

\* lines 296-298: the existence test, made without the lock
RetrieveExists(t) ==
    /\ pc[t] = "r_exists"
    /\ IF ~Exists(embeddings_file) \/ ~Exists(metadata_file)
       THEN Finish(t, Empty("uninitialized"))
       ELSE /\ Goto(t, "r_lock")
            /\ UNCHANGED loc
    /\ UNCHANGED <<store_lock, model_loaded, model_dim, live_dim, n_calls, completed>>
    /\ UNCHANGED <<chunkVars, fileVars, loadVars, scoreVars>>

\* line 301
RetrieveLock(t) ==
    /\ pc[t] = "r_lock"
    /\ Acquirable(store_lock)
    /\ store_lock' = t
    /\ Goto(t, "r_load")
    /\ UNCHANGED <<model_loaded, model_dim, live_dim, loc, n_calls, completed>>
    /\ UNCHANGED <<chunkVars, fileVars, loadVars, scoreVars>>

\* a mutant of RetrieveLoad: a store that cannot be copied is removed, as the
\* reset of the load of ingest would have it
RetrieveLoadResets(t) ==
    /\ pc[t] = "r_load"
    /\ LET copy == CopyStore(StoreDir, loc[t].dim)
       IN  IF copy.how # "copied"
           THEN /\ store_lock' = LockAfterGiveUp(t)
                /\ Finish(t, Empty(copy.how))
                /\ embeddings_file' = NoFile
                /\ metadata_file' = NoFile
                /\ UNCHANGED manifest_file
           ELSE /\ loc' = [loc EXCEPT ![t].emb = copy.emb, ![t].meta = copy.meta]
                /\ store_lock' = LockAfterCopy(t)
                /\ Goto(t, "r_encode")
                /\ UNCHANGED fileVars
    /\ UNCHANGED <<model_loaded, model_dim, live_dim, n_calls, completed>>
    /\ UNCHANGED <<chunkVars, loadVars, scoreVars>>

\* lines 301-308 and 340-342: under the lock, copy the files or give up
RetrieveLoad(t) ==
    /\ pc[t] = "r_load"
    /\ LET copy == CopyStore(StoreDir, loc[t].dim)
       IN  IF copy.how # "copied"
           THEN /\ store_lock' = LockAfterGiveUp(t)
                /\ Finish(t, Empty(copy.how))
           ELSE /\ loc' = [loc EXCEPT ![t].emb = copy.emb, ![t].meta = copy.meta]
                /\ store_lock' = LockAfterCopy(t)
                /\ Goto(t, "r_encode")
    /\ UNCHANGED <<model_loaded, model_dim, live_dim, n_calls, completed>>
    /\ UNCHANGED <<chunkVars, fileVars, loadVars, scoreVars>>

\* lines 321-328 on the copied records
Hits(emb_rows, recs, q, idxs) ==
    LET kept == Results(idxs, Sims([i \in 1..Len(emb_rows) |-> Embed(emb_rows[i])], q),
                        DefaultMinScore)
    IN  [i \in 1..Len(kept) |->
            [id |-> recs[kept[i].idx].id, content |-> recs[kept[i].idx].content,
             idx |-> kept[i].idx, score |-> kept[i].score]]

\* lines 310-342: encode the query, score, select, filter.  A provider error
\* is caught by the except of line 340 and [] is returned; so is the error
\* np.dot raises when the query vector has not the width of the copied matrix
RetrieveScore(t) ==
    /\ pc[t] = "r_encode"
    /\ \/ \E query \in Queries \ {""}, k \in RetrieveKs, use_mmr \in BOOLEAN :
             LET vecs == [i \in 1..Len(loc[t].emb.rows) |-> Embed(loc[t].emb.rows[i])]
                 q == Embed(query)
             IN  IF loc[t].emb.dim # live_dim
                 THEN Finish(t, Empty("error"))
                 ELSE \E idxs \in Selections(vecs, q, k, use_mmr) :
                        Finish(t, [op |-> "retrieve", how |-> "ok", query |-> query,
                                   results |-> Hits(loc[t].emb.rows, loc[t].meta.recs,
                                                    q, idxs)])
       \/ /\ ProviderMayFail
          /\ Finish(t, Empty("provider"))
    /\ UNCHANGED <<store_lock, model_loaded, model_dim, live_dim, n_calls, completed>>
    /\ UNCHANGED <<chunkVars, fileVars, loadVars, scoreVars>>

(***************************************************************************)
(* clear_store, src/rag.py:348-354.                                        *)
(***************************************************************************)
ClearCall(t) ==
    /\ pc[t] = "idle"
    /\ n_calls < MaxCalls
    /\ n_calls' = n_calls + 1
    /\ loc' = [loc EXCEPT ![t] = [NoLocals EXCEPT !.op = "clear"]]
    /\ Goto(t, "c_lock")
    /\ UNCHANGED <<store_lock, model_loaded, model_dim, live_dim, completed>>
    /\ UNCHANGED <<chunkVars, fileVars, loadVars, scoreVars>>

\* line 350
ClearLock(t) ==
    /\ pc[t] = "c_lock"
    /\ Acquirable(store_lock)
    /\ store_lock' = t
    /\ Goto(t, "c_emb")
    /\ UNCHANGED <<model_loaded, model_dim, live_dim, loc, n_calls, completed>>
    /\ UNCHANGED <<chunkVars, fileVars, loadVars, scoreVars>>

\* a mutant of ClearEmbeddings: the loop of line 351 leaves embeddings.npy
ClearEmbeddingsKept(t) ==
    /\ pc[t] = "c_emb"
    /\ Goto(t, "c_meta")
    /\ UNCHANGED <<embeddings_file, metadata_file, manifest_file>>
    /\ UNCHANGED <<store_lock, model_loaded, model_dim, live_dim, loc, n_calls, completed>>
    /\ UNCHANGED <<chunkVars, loadVars, scoreVars>>

\* lines 351-353, first file
ClearEmbeddings(t) ==
    /\ pc[t] = "c_emb"
    /\ embeddings_file' = NoFile
    /\ Goto(t, "c_meta")
    /\ UNCHANGED <<metadata_file, manifest_file>>
    /\ UNCHANGED <<store_lock, model_loaded, model_dim, live_dim, loc, n_calls, completed>>
    /\ UNCHANGED <<chunkVars, loadVars, scoreVars>>

\* lines 351-354, the second and third file, and the end of the with block
ClearRest(t) ==
    /\ pc[t] = "c_meta"
    /\ metadata_file' = NoFile
    /\ manifest_file' = NoFile
    /\ store_lock' = "free"
    /\ Finish(t, [op |-> "clear", how |-> "ok"])
    /\ UNCHANGED embeddings_file
    /\ UNCHANGED <<model_loaded, model_dim, live_dim, n_calls, completed>>
    /\ UNCHANGED <<chunkVars, loadVars, scoreVars>>

\* the process starts with no store, or with the one-chunk store an earlier
\* process saved with a model of either dimension
Init ==
    /\ live_dim \in Dims
    /\ embeddings_file \in {NoFile} \cup {MatrixFile(<<"x">>, d, 0) : d \in Dims}
    /\ metadata_file = IF Exists(embeddings_file)
                       THEN ListFile(<<ChunkRecord("p", 0, 1, "x")>>, 0)
                       ELSE NoFile
    /\ manifest_file = IF Exists(embeddings_file)
                       THEN ManifestFile(embeddings_file.dim, 1, 0)
                       ELSE NoFile
    /\ completed = IF Exists(embeddings_file) THEN {0} ELSE {}
    /\ store_lock = "free"
    /\ model_loaded = FALSE
    /\ model_dim = 0
    /\ pc = [t \in Threads |-> "idle"]
    /\ loc = [t \in Threads |-> NoLocals]
    /\ ret = [t \in Threads |-> [op |-> "none", how |-> "none"]]
    /\ n_calls = 0
    /\ load_dim = FALLBACK_DIM
    /\ load_out = [called |-> FALSE]
    /\ text = <<>>
    /\ chunk_size = 1
    /\ overlap = 0
    /\ start = 0
    /\ chunks = <<>>
    /\ chunk_pc = "idle"
    /\ visited = {}
    /\ r_emb = <<>>
    /\ r_q = <<5, 0>>
    /\ r_k = 1
    /\ r_min_score = 25
    /\ r_use_mmr = FALSE
    /\ r_idxs = <<>>
    /\ r_results = <<>>
    /\ r_pc = "idle"

Next ==
    \E t \in Threads :
        \/ GetModelLoaded(t)
        \/ GetModelLoad(t)
        \/ GetModelProbe(t)
        \/ IngestCall(t)
        \/ IngestLock(t)
        \/ IngestBuild(t)
        \/ IngestSaveOpen(t)
        \/ IngestSaveWrite(t)
        \/ IngestSaveMeta(t)
        \/ IngestSaveManifest(t)
        \/ RetrieveCall(t)
        \/ RetrieveExists(t)
        \/ RetrieveLock(t)
        \/ RetrieveLoad(t)
        \/ RetrieveScore(t)
        \/ ClearCall(t)
        \/ ClearLock(t)
        \/ ClearEmbeddings(t)
        \/ ClearRest(t)

Spec == Init /\ [][Next]_vars

(***************************************************************************)
(* One caller: the calls of the public API made one after the other.  The  *)
(* process may have made calls before: _MODEL and _DIM are unset, or an    *)
(* earlier call set both, or the probe of an earlier call raised and left  *)
(* _MODEL set and _DIM unset (lines 50-53).                                *)
(* The manifest of the store it starts with is of any shape.               *)
(***************************************************************************)
\* the manifest an earlier process left: none (deleted), an unparseable file,
\* or a manifest of any dimension and count, the right one and the stale ones
ManifestShapes ==
    {NoFile, Partial} \cup {ManifestFile(d, c, 0) : d \in Dims, c \in 0..MaxRows}

InitSeq ==
    /\ live_dim \in Dims
    /\ model_loaded \in BOOLEAN
    /\ model_dim \in IF model_loaded THEN {0, live_dim} ELSE {0}
    /\ embeddings_file \in {NoFile} \cup {MatrixFile(<<"x">>, d, 0) : d \in Dims}
    /\ metadata_file = IF Exists(embeddings_file)
                       THEN ListFile(<<ChunkRecord("p", 0, 1, "x")>>, 0)
                       ELSE NoFile
    /\ manifest_file \in IF Exists(embeddings_file) THEN ManifestShapes ELSE {NoFile}
    /\ completed = IF Exists(embeddings_file) THEN {0} ELSE {}
    /\ store_lock = "free"
    /\ pc = [t \in Threads |-> "idle"]
    /\ loc = [t \in Threads |-> NoLocals]
    /\ ret = [t \in Threads |-> [op |-> "none", how |-> "none"]]
    /\ n_calls = 0
    /\ load_dim = FALLBACK_DIM
    /\ load_out = [called |-> FALSE]
    /\ text = <<>>
    /\ chunk_size = 1
    /\ overlap = 0
    /\ start = 0
    /\ chunks = <<>>
    /\ chunk_pc = "idle"
    /\ visited = {}
    /\ r_emb = <<>>
    /\ r_q = <<5, 0>>
    /\ r_k = 1
    /\ r_min_score = 25
    /\ r_use_mmr = FALSE
    /\ r_idxs = <<>>
    /\ r_results = <<>>
    /\ r_pc = "idle"

NextSeq ==
    \/ GetModelLoaded("t1")
    \/ GetModelLoad("t1")
    \/ GetModelProbe("t1")
    \/ IngestCall("t1")
    \/ IngestLock("t1")
    \/ IngestBuild("t1")
    \/ IngestSaveOpen("t1")
    \/ IngestSaveWrite("t1")
    \/ IngestSaveMeta("t1")
    \/ IngestSaveManifest("t1")
    \/ RetrieveCall("t1")
    \/ RetrieveExists("t1")
    \/ RetrieveLock("t1")
    \/ RetrieveLoad("t1")
    \/ RetrieveScore("t1")
    \/ ClearCall("t1")
    \/ ClearLock("t1")
    \/ ClearEmbeddings("t1")
    \/ ClearRest("t1")

SpecSeq == InitSeq /\ [][NextSeq]_vars

(***************************************************************************)
(* The specifications.                                                     *)
(***************************************************************************)
\* _chunk_text on every short text and every small chunk_size and overlap, and
\* on a text of 701 characters under the defaults of line 96
InitChunk ==
    /\ \/ /\ text \in SeqsUpTo(Chars, MaxTextLen)
          /\ chunk_size \in 1..MaxChunkSize
          /\ overlap \in 0..(chunk_size - 1)
       \/ /\ text = [i \in 1..(CHUNK_SIZE + 1) |-> "a"]
          /\ chunk_size = CHUNK_SIZE
          /\ overlap = OVERLAP
    /\ start = 0
    /\ chunks = <<>>
    /\ chunk_pc = "call"
    /\ visited = {}
    /\ embeddings_file = NoFile
    /\ metadata_file = NoFile
    /\ manifest_file = NoFile
    /\ load_dim = FALLBACK_DIM
    /\ load_out = [called |-> FALSE]
    /\ r_emb = <<>>
    /\ r_q = <<5, 0>>
    /\ r_k = 1
    /\ r_min_score = 25
    /\ r_use_mmr = FALSE
    /\ r_idxs = <<>>
    /\ r_results = <<>>
    /\ r_pc = "idle"
    /\ store_lock = "free"
    /\ model_loaded = FALSE
    /\ model_dim = 0
    /\ live_dim = FALLBACK_DIM
    /\ pc = [t \in Threads |-> "idle"]
    /\ loc = [t \in Threads |-> NoLocals]
    /\ ret = [t \in Threads |-> [op |-> "none", how |-> "none"]]
    /\ n_calls = 0
    /\ completed = {}

SpecChunk == InitChunk /\ [][ChunkNext]_vars

\* _ensure_store_shapes on every shape of embeddings file and metadata file
InitLoad ==
    /\ embeddings_file \in EmbFiles
    /\ metadata_file \in MetaFiles
    /\ manifest_file = NoFile
    /\ load_dim \in Dims
    /\ load_out = [called |-> FALSE]
    /\ text = <<>>
    /\ chunk_size = 1
    /\ overlap = 0
    /\ start = 0
    /\ chunks = <<>>
    /\ chunk_pc = "idle"
    /\ visited = {}
    /\ r_emb = <<>>
    /\ r_q = <<5, 0>>
    /\ r_k = 1
    /\ r_min_score = 25
    /\ r_use_mmr = FALSE
    /\ r_idxs = <<>>
    /\ r_results = <<>>
    /\ r_pc = "idle"
    /\ store_lock = "free"
    /\ model_loaded = FALSE
    /\ model_dim = 0
    /\ live_dim = FALLBACK_DIM
    /\ pc = [t \in Threads |-> "idle"]
    /\ loc = [t \in Threads |-> NoLocals]
    /\ ret = [t \in Threads |-> [op |-> "none", how |-> "none"]]
    /\ n_calls = 0
    /\ completed = {}

SpecLoad == InitLoad /\ [][LoadCall]_vars

\* the scoring of retrieve on every small matrix, query, k, min_score, use_mmr
InitRetrieve ==
    /\ r_emb \in SeqsUpTo(UnitVecs, MaxN) \ {<<>>}
    /\ r_q \in UnitVecs
    /\ r_k \in 1..MaxK
    /\ r_min_score \in MinScores
    /\ r_use_mmr \in BOOLEAN
    /\ r_idxs = <<>>
    /\ r_results = <<>>
    /\ r_pc = "call"
    /\ text = <<>>
    /\ chunk_size = 1
    /\ overlap = 0
    /\ start = 0
    /\ chunks = <<>>
    /\ chunk_pc = "idle"
    /\ visited = {}
    /\ embeddings_file = NoFile
    /\ metadata_file = NoFile
    /\ manifest_file = NoFile
    /\ load_dim = FALLBACK_DIM
    /\ load_out = [called |-> FALSE]
    /\ store_lock = "free"
    /\ model_loaded = FALSE
    /\ model_dim = 0
    /\ live_dim = FALLBACK_DIM
    /\ pc = [t \in Threads |-> "idle"]
    /\ loc = [t \in Threads |-> NoLocals]
    /\ ret = [t \in Threads |-> [op |-> "none", how |-> "none"]]
    /\ n_calls = 0
    /\ completed = {}

SpecRetrieve == InitRetrieve /\ [][ScoreCall]_vars

\* the stores of four vectors made of three near-duplicates (pairwise
\* similarity at least 0.96) and one vector dissimilar to each of them
\* (similarity at most 0), in every arrangement
DiversityStores ==
    {e \in [1..4 -> UnitVecs] :
        \E o \in 1..4 :
            /\ \A i, j \in (1..4) \ {o} : 4 * Dot(e[i], e[j]) >= 96
            /\ \A i \in (1..4) \ {o} : 4 * Dot(e[o], e[i]) <= 0}

\* the scoring of retrieve with k = 2 on the stores of the diversity example
InitMmr ==
    /\ r_emb \in DiversityStores
    /\ r_q \in UnitVecs
    /\ r_k = 2
    /\ r_min_score \in MinScores
    /\ r_use_mmr \in BOOLEAN
    /\ r_idxs = <<>>
    /\ r_results = <<>>
    /\ r_pc = "call"
    /\ text = <<>>
    /\ chunk_size = 1
    /\ overlap = 0
    /\ start = 0
    /\ chunks = <<>>
    /\ chunk_pc = "idle"
    /\ visited = {}
    /\ embeddings_file = NoFile
    /\ metadata_file = NoFile
    /\ manifest_file = NoFile
    /\ load_dim = FALLBACK_DIM
    /\ load_out = [called |-> FALSE]
    /\ store_lock = "free"
    /\ model_loaded = FALSE
    /\ model_dim = 0
    /\ live_dim = FALLBACK_DIM
    /\ pc = [t \in Threads |-> "idle"]
    /\ loc = [t \in Threads |-> NoLocals]
    /\ ret = [t \in Threads |-> [op |-> "none", how |-> "none"]]
    /\ n_calls = 0
    /\ completed = {}

SpecMmr == InitMmr /\ [][ScoreCall]_vars

\* _mmr on every small matrix, the empty one included, every query vector and
\* every top_k from 0
InitMmrCall ==
    /\ r_emb \in SeqsUpTo(UnitVecs, MaxN)
    /\ r_q \in UnitVecs
    /\ r_k \in 0..MaxK
    /\ r_min_score = 25
    /\ r_use_mmr = TRUE
    /\ r_idxs = <<>>
    /\ r_results = <<>>
    /\ r_pc = "call"
    /\ text = <<>>
    /\ chunk_size = 1
    /\ overlap = 0
    /\ start = 0
    /\ chunks = <<>>
    /\ chunk_pc = "idle"
    /\ visited = {}
    /\ embeddings_file = NoFile
    /\ metadata_file = NoFile
    /\ manifest_file = NoFile
    /\ load_dim = FALLBACK_DIM
    /\ load_out = [called |-> FALSE]
    /\ store_lock = "free"
    /\ model_loaded = FALSE
    /\ model_dim = 0
    /\ live_dim = FALLBACK_DIM
    /\ pc = [t \in Threads |-> "idle"]
    /\ loc = [t \in Threads |-> NoLocals]
    /\ ret = [t \in Threads |-> [op |-> "none", how |-> "none"]]
    /\ n_calls = 0
    /\ completed = {}

SpecMmrCall == InitMmrCall /\ [][MmrCall]_vars

(***************************************************************************)
(* C1: for every text, every chunk_size >= 1 and every overlap with        *)
(* 0 <= overlap < chunk_size the chunker terminates: the window start      *)
(* reaches the end of the text.  The loop is deterministic in start, so it *)
(* terminates exactly when it never comes back to a window start it has    *)
(* already processed.                                                      *)
(***************************************************************************)
C1_ChunkerTerminates ==
    chunk_pc = "loop" => start \notin visited


(***************************************************************************)
(* What is on disk.  A half-written file has no row count.                 *)
(***************************************************************************)
RowsOnDisk ==
    IF embeddings_file.kind = "matrix" THEN Len(embeddings_file.rows)
    ELSE IF embeddings_file.kind = "none" THEN 0 ELSE -1

RecordsOnDisk ==
    IF metadata_file.kind = "list" THEN Len(metadata_file.recs)
    ELSE IF metadata_file.kind = "none" THEN 0 ELSE -1

ManifestCount ==
    IF manifest_file.kind = "manifest" THEN manifest_file.count ELSE 0

\* the part of ingest_documents and clear_store that runs inside the with block
MutatorSection ==
    {"i_load", "i_chunking", "i_save_emb", "i_save_emb2", "i_save_meta", "i_save_man",
     "c_emb", "c_meta"}

SaveSection == {"i_save_emb", "i_save_emb2", "i_save_meta", "i_save_man"}

Quiescent == \A t \in Threads : pc[t] = "idle"

(***************************************************************************)
(* C2: save is atomic: at every point during a save, and after a save that *)
(* failed at any step, the embeddings file and the metadata file are each  *)
(* complete and together are the whole old store or the whole new store:   *)
(* both absent, or both written by the same save.  (A clear_store that has *)
(* removed the first file and not yet the second is left out.)             *)
(***************************************************************************)
C2_SaveIsAtomic ==
    (\A t \in Threads : pc[t] # "c_meta") =>
        /\ embeddings_file.kind \in {"none", "matrix"}
        /\ metadata_file.kind \in {"none", "list"}
        /\ Exists(embeddings_file) <=> Exists(metadata_file)
        /\ Exists(embeddings_file) => embeddings_file.ver = metadata_file.ver

(***************************************************************************)
(* C3: once the operations have completed (no call is in progress, and no  *)
(* thread's last call raised), the rows of the persisted matrix, the       *)
(* persisted records and the manifest's count are the same number.         *)
(***************************************************************************)
C3_AlignedAfterOperations ==
    (Quiescent /\ \A t \in Threads : ret[t].how # "raised") =>
        /\ RowsOnDisk = RecordsOnDisk
        /\ RowsOnDisk = ManifestCount

(***************************************************************************)
(* C4: whenever a load can run (the lock is free), a store that load       *)
(* accepts for a dimension has, for every i, row i equal to the embedding  *)
(* of the content of record i, and its rows and records come from the same *)
(* save.                                                                   *)
(***************************************************************************)
C4_AcceptedStoreIsAligned ==
    store_lock = "free" =>
        \A d \in Dims :
            LET st == EnsureStoreShapes(embeddings_file, metadata_file, d)
            IN  st.emb.rows # <<>> =>
                    /\ \A i \in 1..Len(st.emb.rows) : st.emb.rows[i] = st.meta[i].content
                    /\ embeddings_file.ver = metadata_file.ver

(***************************************************************************)
(* C6: at most one mutating operation is inside its load/mutate/save       *)
(* section at a time: a thread inside the with block of ingest_documents   *)
(* (from the load to the end of the save) or of clear_store holds the      *)
(* store lock, and a step that changes a file is taken by the holder.      *)
(***************************************************************************)
C6_OneMutatorAtATime ==
    /\ [](\A t \in Threads : pc[t] \in MutatorSection => store_lock = t)
    /\ [][fileVars' # fileVars =>
            (store_lock \in Threads /\ pc[store_lock] \in MutatorSection)]_vars

\* an ingest is in the middle of its save while the other thread waits for the lock
C6_Witness ==
    \E t, u \in Threads :
        /\ pc[t] = "i_save_meta"
        /\ store_lock = t
        /\ pc[u] \in {"i_lock", "c_lock"}

(***************************************************************************)
(* C7: the matrix and the record list a retrieve copies and scores were    *)
(* written by one and the same save, never the matrix of one save with the *)
(* records of another.                                                     *)
(***************************************************************************)
C7_NoTornRead ==
    \A t \in Threads :
        pc[t] = "r_encode" => loc[t].emb.ver = loc[t].meta.ver

(***************************************************************************)
(* C8 (as stated): no retrieve ever waits for another retrieve to release  *)
(* the store lock.                                                         *)
(***************************************************************************)
C8_RetrievesNeverWait ==
    \A t, u \in Threads :
        ~(pc[t] = "r_lock" /\ pc[u] = "r_load" /\ store_lock = u)

(***************************************************************************)
(* C8 (amended): concurrent retrievals exclude each other only while one   *)
(* of them copies the matrix and the records: a retrieve holds the store   *)
(* lock exactly while it copies, and never while it tests for the files,   *)
(* waits, encodes the query or scores.                                     *)
(***************************************************************************)
C8_RetrievesLockOnlyToCopy ==
    \A t \in Threads :
        /\ pc[t] = "r_load" => store_lock = t
        /\ pc[t] \in {"r_exists", "r_lock", "r_encode"} => store_lock # t

\* one retrieve is copying under the lock while the other is already scoring
C8_Witness ==
    \E t, u \in Threads :
        /\ pc[t] = "r_load"
        /\ store_lock = t
        /\ pc[u] = "r_encode"

(***************************************************************************)
(* C5: load(expected_dim) never raises; what it returns has expected_dim   *)
(* columns and as many records as rows; and when a file is missing, the    *)
(* persisted column count differs from expected_dim, the record count      *)
(* differs from the row count, or parsing fails, it returns the empty      *)
(* store of width expected_dim.                                            *)
(***************************************************************************)
LoadMustReset ==
    \/ ~Exists(embeddings_file)
    \/ ~Exists(metadata_file)
    \/ embeddings_file.kind # "matrix"
    \/ metadata_file.kind # "list"
    \/ embeddings_file.dim # load_dim
    \/ Len(metadata_file.recs) # Len(embeddings_file.rows)

C5_LoadNeverMismatched ==
    load_out.called =>
        /\ ~load_out.res.raised
        /\ load_out.res.emb.dim = load_dim
        /\ Len(load_out.res.meta) = Len(load_out.res.emb.rows)
        /\ LoadMustReset =>
              /\ load_out.res.emb.rows = <<>>
              /\ load_out.res.meta = <<>>

\* a store persisted with 384 columns and loaded with 768 came back empty
C5_Witness ==
    /\ load_out.called
    /\ embeddings_file.kind = "matrix"
    /\ metadata_file.kind = "list"
    /\ embeddings_file.dim = FALLBACK_DIM
    /\ Len(embeddings_file.rows) = MaxRows
    /\ Len(metadata_file.recs) = MaxRows
    /\ load_dim = 768
    /\ load_out.res = EmptyStore(768)

(***************************************************************************)
(* C9 and C10 speak of the scoring run on its own.                         *)
(***************************************************************************)
ScoredSims == Sims(r_emb, r_q)

NonMmrDone == r_pc = "done" /\ ~UsesMmr(r_use_mmr, r_k, Len(r_emb))

IdxSet == {r_idxs[i] : i \in 1..Len(r_idxs)}

\* the k highest relevances, in descending order
TopKDescending ==
    /\ Len(r_idxs) = Min(r_k, Len(r_emb))
    /\ \A i, j \in 1..Len(r_idxs) : i # j => r_idxs[i] # r_idxs[j]
    /\ \A i, j \in 1..Len(r_idxs) :
          i < j => ScoredSims[r_idxs[i]] >= ScoredSims[r_idxs[j]]
    /\ \A u \in (1..Len(r_emb)) \ IdxSet : \A s \in IdxSet :
          ScoredSims[u] <= ScoredSims[s]

\* among equal relevances the earlier-inserted record is selected, and ranked,
\* before the later-inserted one
TiesByInsertionOrder ==
    /\ \A i, j \in 1..Len(r_idxs) :
          (i < j /\ ScoredSims[r_idxs[i]] = ScoredSims[r_idxs[j]])
              => r_idxs[i] < r_idxs[j]
    /\ \A u \in (1..Len(r_emb)) \ IdxSet : \A s \in IdxSet :
          ScoredSims[u] = ScoredSims[s] => s < u

(***************************************************************************)
(* C9 (as stated): when MMR is not used, retrieve selects the k indices    *)
(* with the highest relevance in descending score order, and among records *)
(* with equal relevance the earlier-inserted record (lower index) is       *)
(* selected and ranked before the later-inserted one.                      *)
(***************************************************************************)
C9_TopKEarlierWins ==
    NonMmrDone => (TopKDescending /\ TiesByInsertionOrder)

(***************************************************************************)
(* C9 (amended): when MMR is not used, retrieve selects min(k, N) distinct *)
(* indices with the highest relevance, in descending score order; the      *)
(* order among records of equal relevance is not fixed.                    *)
(***************************************************************************)
C9_TopKDescending ==
    NonMmrDone => TopKDescending

\* a non-MMR selection that had to choose between two records of equal relevance
C9_Witness ==
    /\ NonMmrDone
    /\ Len(r_emb) > r_k
    /\ \E s \in IdxSet : \E u \in (1..Len(r_emb)) \ IdxSet :
          ScoredSims[u] = ScoredSims[s]
    /\ \E s \in IdxSet : \E u \in (1..Len(r_emb)) \ IdxSet :
          ScoredSims[u] < ScoredSims[s]

(***************************************************************************)
(* C10: retrieve returns exactly the selected candidates whose score is at *)
(* least min_score, in selection order: no result is below min_score, no   *)
(* selected candidate at or above it is dropped.                           *)
(***************************************************************************)
PosIn(seq, x) == CHOOSE i \in 1..Len(seq) : seq[i] = x

C10_MinScoreFilter ==
    r_pc = "done" =>
        /\ \A i \in 1..Len(r_results) :
              /\ r_results[i].idx \in IdxSet
              /\ r_results[i].score = Clip(ScoredSims[r_results[i].idx])
              /\ r_results[i].score >= r_min_score
        /\ \A x \in IdxSet :
              Clip(ScoredSims[x]) >= r_min_score
                  => \E i \in 1..Len(r_results) : r_results[i].idx = x
        /\ \A i, j \in 1..Len(r_results) :
              i < j => PosIn(r_idxs, r_results[i].idx) < PosIn(r_idxs, r_results[j].idx)

\* two stored chunks of similarity 0.96 and 0.60, min_score 0.9: exactly the
\* 0.96 chunk is returned
C10_Witness ==
    /\ r_pc = "done"
    /\ r_min_score = 90
    /\ r_k >= 2
    /\ {ScoredSims[i] : i \in 1..Len(r_emb)} = {96, 60}
    /\ Len(r_emb) = 2
    /\ Len(r_idxs) = 2
    /\ Len(r_results) = 1
    /\ r_results[1].score = 96

(***************************************************************************)
(* C11 speaks of the scoring run on a store of three near-duplicates and   *)
(* one dissimilar vector.                                                  *)
(***************************************************************************)
\* the position of the dissimilar vector, and the positions of the cluster
OddOne ==
    CHOOSE o \in 1..Len(r_emb) :
        \A i \in (1..Len(r_emb)) \ {o} : 4 * Dot(r_emb[o], r_emb[i]) <= 0

Cluster == (1..Len(r_emb)) \ {OddOne}

\* the selection is one member of the cluster plus the dissimilar vector
DiverseSelection ==
    /\ OddOne \in IdxSet
    /\ Cardinality(IdxSet \cap Cluster) = 1

\* 0.7 * rel - 0.3 * similarity to the first selected, in thousandths
SecondScore(i) ==
    LAMBDA_TENTHS * ScoredSims[i] - (10 - LAMBDA_TENTHS) * DocSim(r_emb, i, r_idxs[1])

(***************************************************************************)
(* C11 (as stated): on three near-duplicates and one dissimilar vector,    *)
(* k = 2 with use_mmr = true selects one representative of the cluster     *)
(* plus the dissimilar vector and never two near-duplicates, and           *)
(* use_mmr = false selects the two vectors of highest raw relevance.       *)
(***************************************************************************)
C11_MmrNeverTwoDuplicates ==
    r_pc = "done" =>
        IF r_use_mmr THEN DiverseSelection ELSE TopKDescending

(***************************************************************************)
(* C11 (amended): with use_mmr = true the first selected vector is a most  *)
(* relevant one and the second is, among the others, one that maximises    *)
(* 0.7 * rel - 0.3 * similarity to the first; so the selection is one      *)
(* representative plus the dissimilar vector when the dissimilar vector    *)
(* is selected first or beats every remaining near-duplicate in that       *)
(* score, and it is two near-duplicates when a remaining near-duplicate    *)
(* beats the dissimilar vector.  With use_mmr = false the two vectors of   *)
(* highest raw relevance are selected.  Either way a selected vector       *)
(* below min_score is not returned.                                        *)
(***************************************************************************)
C11_MmrDiversity ==
    r_pc = "done" =>
        /\ r_use_mmr =>
              /\ Len(r_idxs) = 2
              /\ r_idxs[1] # r_idxs[2]
              /\ \A i \in 1..Len(r_emb) : ScoredSims[i] <= ScoredSims[r_idxs[1]]
              /\ \A i \in (1..Len(r_emb)) \ {r_idxs[1]} :
                    SecondScore(i) <= SecondScore(r_idxs[2])
              /\ (\/ r_idxs[1] = OddOne
                  \/ \A d \in Cluster \ {r_idxs[1]} : SecondScore(OddOne) > SecondScore(d))
                    => DiverseSelection
              /\ (/\ r_idxs[1] # OddOne
                  /\ \E d \in Cluster \ {r_idxs[1]} : SecondScore(d) > SecondScore(OddOne))
                    => IdxSet \subseteq Cluster
        /\ ~r_use_mmr => TopKDescending
        /\ \A i \in 1..Len(r_results) :
              r_results[i].idx \in IdxSet /\ r_results[i].score >= r_min_score

\* MMR passed over a near-duplicate of higher raw relevance for the
\* dissimilar vector, and both selected vectors were returned
C11_Witness ==
    /\ r_pc = "done"
    /\ r_use_mmr
    /\ r_idxs[1] \in Cluster
    /\ r_idxs[2] = OddOne
    /\ \E d \in Cluster \ {r_idxs[1]} : ScoredSims[d] > ScoredSims[OddOne]
    /\ Len(r_results) = 2

(***************************************************************************)
(* C12 to C19 speak of the calls of one caller, made one after the other.  *)
(***************************************************************************)
\* the call that has just returned to the one caller
LastCall == ret["t1"]

Returned == pc["t1"] = "idle" /\ n_calls > 0

\* the call before the last one was an ingest of this process whose save ran to
\* its end, and nothing has written the store since
AfterIngest ==
    /\ n_calls >= 2
    /\ (n_calls - 1) \in completed
    /\ metadata_file.kind = "list"
    /\ metadata_file.ver = n_calls - 1

StoredContents ==
    IF metadata_file.kind = "list"
    THEN {metadata_file.recs[i].content : i \in 1..Len(metadata_file.recs)}
    ELSE {}

(***************************************************************************)
(* C12: round trip: after an ingest of a document with non-empty content,  *)
(* a retrieve whose query is that content returns a non-empty list whose   *)
(* first element is a chunk of that content with score at least 0.99.      *)
(* The retrieve is one the provider did not fail in; a retrieve that       *)
(* returned before it read its query returns the same for every non-empty  *)
(* query.  A first element of the same content as the document is taken    *)
(* for the document's chunk.                                               *)
(***************************************************************************)
C12_RoundTrip ==
    (/\ Returned
     /\ AfterIngest
     /\ LastCall.op = "retrieve"
     /\ LastCall.how \notin {"empty_query", "raised", "provider"}) =>
        /\ LastCall.how = "ok"
        /\ LastCall.query \in StoredContents =>
              /\ LastCall.results # <<>>
              /\ LastCall.results[1].content = LastCall.query
              /\ LastCall.results[1].score >= 99

NoStoreOnDisk ==
    /\ embeddings_file = NoFile
    /\ metadata_file = NoFile
    /\ manifest_file = NoFile

OldRows == IF embeddings_file.kind = "matrix" THEN embeddings_file.rows ELSE <<>>

OldRecs == IF metadata_file.kind = "list" THEN metadata_file.recs ELSE <<>>

IsPrefix(a, b) == Len(a) <= Len(b) /\ SubSeq(b, 1, Len(a)) = a

\* the load of the ingest of thread t does not return the persisted store, or
\* the batch comes back from the provider in another dimension
HitsReset(t) ==
    LET st == EnsureStoreShapes(embeddings_file, metadata_file, loc[t].dim)
    IN  \/ st.emb.rows # OldRows
        \/ st.meta # OldRecs
        \/ live_dim # loc[t].dim

\* the ingest of thread t loads the store and builds the one it is to save
BuildsStore(t) == pc[t] = "i_load" /\ pc'[t] = "i_save_emb"

\* the save of the ingest of thread t ends
SaveEnds(t) == pc[t] = "i_save_man" /\ ret'[t] = [op |-> "ingest", how |-> "ok"]

(***************************************************************************)
(* C14: the store is append-only under ingest: an ingest that hits no      *)
(* dimension or corruption reset builds a store in which the rows and the  *)
(* records persisted before are present, unchanged, in the same order, as  *)
(* a prefix, followed by the new chunks; and when its save ends the files  *)
(* hold exactly the store it built.                                        *)
(***************************************************************************)
C14_AppendOnly ==
    [][\A t \in Threads :
          /\ (BuildsStore(t) /\ ~HitsReset(t)) =>
                /\ IsPrefix(OldRows, loc'[t].emb.rows)
                /\ IsPrefix(OldRecs, loc'[t].meta.recs)
                /\ Len(loc'[t].emb.rows) > Len(OldRows)
                /\ Len(loc'[t].meta.recs) = Len(loc'[t].emb.rows)
          /\ SaveEnds(t) =>
                /\ embeddings_file'.kind = "matrix"
                /\ metadata_file'.kind = "list"
                /\ embeddings_file'.rows = loc[t].emb.rows
                /\ metadata_file'.recs = loc[t].meta.recs]_vars

\* an ingest of two documents has been saved after the chunk the store began
\* with
C14_Witness ==
    /\ \E t \in Threads : pc[t] = "idle" /\ ret[t] = [op |-> "ingest", how |-> "ok"]
    /\ embeddings_file.kind = "matrix"
    /\ metadata_file.kind = "list"
    /\ embeddings_file.ver = metadata_file.ver
    /\ embeddings_file.ver \in completed \ {0}
    /\ embeddings_file.rows = <<"x", "x", "y">>
    /\ metadata_file.recs[1] = ChunkRecord("p", 0, 1, "x")
    /\ Len(metadata_file.recs) = 3

(***************************************************************************)
(* C15 speaks of an ingest that saves nothing.  ingest_documents reads the *)
(* documents of a non-empty list first at line 228: what it does before,   *)
(* it does whatever the documents are, so also when each of them has empty *)
(* content after trimming.                                                 *)
(***************************************************************************)
\* the call of thread t returns as a no-op: at lines 215-217 or at 250-252
ReturnsNoOp(t) ==
    /\ pc[t] \in {"idle", "i_load"}
    /\ pc'[t] = "idle"
    /\ ret'[t] = [op |-> "ingest", how |-> "noop"]
    /\ (pc[t] = "idle" => n_calls' # n_calls)

\* the ingest of thread t raises before it has read its documents
RaisesBeforeDocuments(t) ==
    /\ loc[t].op = "ingest"
    /\ pc[t] \in {"gm_check", "gm_probe", "i_lock"}
    /\ pc'[t] = "idle"
    /\ ret'[t].how = "raised"

(***************************************************************************)
(* C15: an ingest of the empty document list, or of a batch in which every *)
(* document has empty content after trimming, is a no-op: it raises no     *)
(* error and leaves the embeddings, metadata and manifest files exactly as *)
(* they were, whatever the state of the store.                             *)
(***************************************************************************)
C15_NoOpIngest ==
    [][\A t \in Threads :
          /\ ReturnsNoOp(t) => fileVars' = fileVars
          /\ ~RaisesBeforeDocuments(t)]_vars

(***************************************************************************)
(* C16: when the embedding provider fails, the operation that called it    *)
(* fails loudly: the call ends with the provider's error raised to its     *)
(* caller, and the failure is never turned into an empty result.  (A call  *)
(* ends at the first provider failure, so there is no second attempt.)     *)
(***************************************************************************)
C16_ProviderFailsLoudly ==
    \A t \in Threads :
        ~(/\ pc[t] = "idle"
          /\ ret[t].op = "retrieve"
          /\ ret[t].how = "provider"
          /\ ret[t].results = <<>>)

(***************************************************************************)
(* C17: the dimension against which ingest and retrieve validate the       *)
(* persisted store is the dimension of the vectors the live provider       *)
(* returns: a thread that has computed dim at line 220 or 294 and goes on  *)
(* to validate the store with it holds the live dimension, also when calls *)
(* run at the same time during the lazy load and after a failed probe.     *)
(***************************************************************************)
C17_ValidatesWithLiveDimension ==
    \A t \in Threads :
        pc[t] \in {"i_lock", "i_load", "r_exists", "r_lock", "r_load"}
            => loc[t].dim = live_dim

(***************************************************************************)
(* C18: the manifest is purely observational: in every state, whatever     *)
(* manifest is put in the place of the one on disk (none, an unparseable   *)
(* file, a stale or the right manifest), the load of ingest and the copy   *)
(* of retrieve return the same matrix and records for every dimension, so  *)
(* the manifest never decides whether a load succeeds, and what ingest     *)
(* appends to and retrieve scores is the same.                             *)
(***************************************************************************)
C18_ManifestObservational ==
    \A m \in ManifestShapes : \A d \in Dims :
        LET other == [StoreDir EXCEPT !.manifest = m]
        IN  /\ LoadStore(other, d) = LoadStore(StoreDir, d)
            /\ CopyStore(other, d) = CopyStore(StoreDir, d)

\* an ingest has loaded and extended a store whose manifest is stale or
\* unparseable
C18_Witness ==
    /\ pc["t1"] = "i_save_emb"
    /\ embeddings_file.kind = "matrix"
    /\ \/ manifest_file = Partial
       \/ /\ manifest_file.kind = "manifest"
          /\ manifest_file.count # Len(embeddings_file.rows)
          /\ manifest_file.dim # embeddings_file.dim
    /\ Len(loc["t1"].emb.rows) > Len(embeddings_file.rows)
    /\ IsPrefix(embeddings_file.rows, loc["t1"].emb.rows)

(***************************************************************************)
(* C19: an empty or whitespace-only query makes retrieve return the empty  *)
(* list at once, as a value: a retrieve of such a query never gets to the  *)
(* model load, the existence test, the lock or the copy, and the call      *)
(* that returns for the empty query is one step that leaves the lock, the  *)
(* model and the three files as they were.                                 *)
(***************************************************************************)
C19_BlankQueryReturnsAtOnce ==
    /\ [](\A t \in Threads :
            /\ (loc[t].op = "retrieve" /\ pc[t] # "idle") => ~loc[t].blank
            /\ ret[t].how = "empty_query" =>
                  (ret[t].results = <<>> /\ Strip(ret[t].query) = <<>>))
    /\ [][\A t \in Threads :
            (pc[t] = "idle" /\ pc'[t] = "idle" /\ ret'[t] # ret[t]
                /\ ret'[t].how = "empty_query")
                => /\ store_lock' = store_lock
                   /\ model_loaded' = model_loaded
                   /\ model_dim' = model_dim
                   /\ fileVars' = fileVars]_vars

\* a whitespace-only query has returned the empty list in a process whose
\* model was never loaded and whose lock nobody took, with a store on disk
C19_Witness ==
    /\ Returned
    /\ LastCall.how = "empty_query"
    /\ LastCall.query = <<" ", "n">>
    /\ LastCall.results = <<>>
    /\ n_calls = 1
    /\ ~model_loaded
    /\ store_lock = "free"
    /\ embeddings_file.kind = "matrix"

(***************************************************************************)
(* C20: for every N >= 0 document vectors and every top_k >= 0, _mmr       *)
(* returns exactly min(top_k, N) indices, all distinct and all in the      *)
(* range 0..N-1 (positions 1..N here).                                     *)
(***************************************************************************)
C20_MmrCount ==
    r_pc = "done" =>
        /\ Len(r_idxs) = Min(r_k, Len(r_emb))
        /\ \A i, j \in 1..Len(r_idxs) : i # j => r_idxs[i] # r_idxs[j]
        /\ \A i \in 1..Len(r_idxs) : r_idxs[i] \in 1..Len(r_emb)

\* _mmr chose two of three vectors that are all the same
C20_Witness ==
    /\ r_pc = "done"
    /\ Len(r_emb) = 3
    /\ r_k = 2
    /\ \A i \in 1..Len(r_emb) : r_emb[i] = r_emb[1]
    /\ Len(r_idxs) = 2
    /\ r_idxs[1] # r_idxs[2]

(***************************************************************************)
(* C21: _chunk_text returns the empty sequence for an empty or             *)
(* whitespace-only text; for any other text no longer than chunk_size it   *)
(* returns one element, the text without its leading and trailing          *)
(* whitespace; and at no time does the list of chunks hold an empty        *)
(* string.                                                                 *)
(***************************************************************************)
IsBlankText(t) == \A i \in 1..Len(t) : t[i] \in Whitespace

\* c is t without its leading and trailing whitespace, for a t that is not blank
IsTrimOf(c, t) ==
    /\ c # <<>>
    /\ c[1] \notin Whitespace
    /\ c[Len(c)] \notin Whitespace
    /\ \E from \in 0..Len(t) :
          /\ from + Len(c) <= Len(t)
          /\ Slice(t, from, from + Len(c)) = c
          /\ \A i \in 1..Len(t) :
                (i <= from \/ i > from + Len(c)) => t[i] \in Whitespace

C21_NoEmptyChunk ==
    \A i \in 1..Len(chunks) : chunks[i] # <<>>

C21_ShortTexts ==
    [][ChunkEnter =>
          /\ IsBlankText(text) => (chunk_pc' = "done" /\ chunks' = <<>>)
          /\ (~IsBlankText(text) /\ Len(text) <= chunk_size) =>
                /\ chunk_pc' = "done"
                /\ Len(chunks') = 1
                /\ IsTrimOf(chunks'[1], text)]_vars

C21_ChunkerContract ==
    []C21_NoEmptyChunk /\ C21_ShortTexts

\* a text shorter than chunk_size came back as the one chunk
C21_Witness ==
    /\ chunk_pc = "done"
    /\ visited = {}
    /\ Len(chunks) = 1
    /\ chunks[1] = text
    /\ Len(text) = 2
    /\ chunk_size = 3

\* the loop met a window with nothing but whitespace before its cut and
\* appended no chunk for it
C21_SkippedEmptyChunk ==
    /\ chunk_pc = "done"
    /\ Len(chunks) >= 2
    /\ \E s \in visited :
          LET window == Window(text, s, chunk_size)
          IN  IsBlankText(Slice(window, 0, BreakIdx(window)))

(***************************************************************************)
(* C22: for a text longer than chunk_size the chunker returns, and the     *)
(* chunks it returns cover the text: every position of the trimmed text    *)
(* that holds no whitespace lies in the kept part of some window, and each *)
(* window after the first starts overlap characters before the cut of the  *)
(* window before it.  A run of the loop returns only if it never comes     *)
(* back to a window start it has already processed.                        *)
(***************************************************************************)
\* positions s .. s + break_idx - 1 of the text: what the window at s keeps
KeptBy(s) ==
    LET window == Window(text, s, chunk_size)
    IN  s .. (s + BreakIdx(window) - 1)

C22_Covers ==
    \A p \in 0..(Len(text) - 1) :
        text[p + 1] \notin Whitespace => \E s \in visited : p \in KeptBy(s)

\* every window start but the first lies overlap characters before a cut
C22_WindowsOverlap ==
    \A s \in (visited \cup {start}) \ {0} :
        \E s0 \in visited :
            s = s0 + BreakIdx(Window(text, s0, chunk_size)) - overlap

C22_ReturnedChunksCover ==
    (chunk_pc = "done" /\ visited # {}) => (C22_Covers /\ C22_WindowsOverlap)

C22_LongTextCovered ==
    /\ (chunk_pc = "loop" /\ overlap >= 1) => start \notin visited
    /\ C22_ReturnedChunksCover

\* the loop returned for a text longer than chunk_size
C22_LoopReturned ==
    /\ chunk_pc = "done"
    /\ Cardinality(visited) >= 2
    /\ Len(chunks) >= 2

(***************************************************************************)
(* C23: the selection of _mmr is the greedy one.  The first index has the  *)
(* greatest relevance of all N rows; each later index is a row not yet     *)
(* selected whose score 0.7 * rel - 0.3 * (greatest doc_sim to a row       *)
(* selected before it) is the greatest among the rows not yet selected;    *)
(* a row once selected stays where it is.                                  *)
(***************************************************************************)
\* the reference score of row c against the rows selected before position p,
\* in thousandths
GreedyScore(c, p) ==
    LET rel == Sims(r_emb, r_q)
        red == SetMax({Clip(4 * Dot(r_emb[c], r_emb[r_idxs[j]])) : j \in 1..(p - 1)})
    IN  7 * rel[c] - 3 * red

C23_MmrIsGreedy ==
    r_pc = "done" =>
        LET rel == Sims(r_emb, r_q)
        IN  \A p \in 1..Len(r_idxs) :
                LET before == {r_idxs[j] : j \in 1..(p - 1)}
                    remaining == (1..Len(r_emb)) \ before
                IN  /\ r_idxs[p] \in remaining
                    /\ IF p = 1
                       THEN \A c \in remaining : rel[r_idxs[1]] >= rel[c]
                       ELSE \A c \in remaining :
                               GreedyScore(r_idxs[p], p) >= GreedyScore(c, p)

\* the second row selected is less relevant than the third: the redundancy
\* term decided
C23_Witness ==
    /\ r_pc = "done"
    /\ Len(r_idxs) = 3
    /\ LET rel == Sims(r_emb, r_q)
       IN  rel[r_idxs[2]] < rel[r_idxs[3]]

(***************************************************************************)
(* C24: ingest builds one record per chunk of each document whose content  *)
(* is not empty, in document order then chunk order, and skips the         *)
(* documents without content: a document of one chunk gets the bare        *)
(* doc_id as id and chunk_index 0, a document of more than one chunk gets  *)
(* doc_id#0, doc_id#1, ...  So the build step of every batch, one with a   *)
(* document longer than CHUNK_SIZE included, ends with the records built.  *)
(***************************************************************************)
RECURSIVE WithContent(_)
\* the documents of the batch that have content, in their order
WithContent(docs) ==
    IF docs = <<>> THEN <<>>
    ELSE IF Head(docs).content = "" THEN WithContent(Tail(docs))
    ELSE <<Head(docs)>> \o WithContent(Tail(docs))

\* the records of a batch whose documents are all of one chunk
OneChunkRecords(docs) ==
    LET ds == WithContent(docs)
    IN  [i \in 1..Len(ds) |->
            [id |-> <<ds[i].id>>, doc_id |-> ds[i].id, content |-> ds[i].content,
             chunk_index |-> 0]]

C24_ShortDocumentRecords ==
    [][(IngestBuild("t1") /\ pc'["t1"] = "i_save_emb") =>
          \E docs \in Batches :
             LET new == OneChunkRecords(docs)
                 all == loc'["t1"].meta.recs
             IN  /\ new # <<>>
                 /\ Len(all) >= Len(new)
                 /\ SubSeq(all, Len(all) - Len(new) + 1, Len(all)) = new
                 /\ Len(all) - Len(new) \in {0, RecordsOnDisk}]_vars

C24_BuildReturns ==
    [][IngestBuild("t1") => pc'["t1"] # "i_chunking"]_vars

C24_RecordPerChunk ==
    C24_ShortDocumentRecords /\ C24_BuildReturns

(***************************************************************************)
(* C25: when the vectors of the batch have another dimension than the      *)
(* store ingest loaded (which has the dimension `_DIM or 384` the load was *)
(* asked for), ingest drops what it loaded, and an ingest that returns has *)
(* persisted the new batch alone: the matrix has the new dimension, its    *)
(* rows and the records are those of the batch, and the manifest holds the *)
(* new dimension and the count of the batch.                               *)
(***************************************************************************)
\* `_DIM or 384`: in a process of one thread _DIM does not change between
\* line 220 and the return of ingest
ExpectedDim == IF model_dim = 0 THEN FALLBACK_DIM ELSE model_dim

DimChanged == ExpectedDim # live_dim

\* the store on disk is one batch, at the live dimension
BatchAloneOnDisk ==
    /\ embeddings_file.kind = "matrix"
    /\ metadata_file.kind = "list"
    /\ manifest_file.kind = "manifest"
    /\ embeddings_file.dim = live_dim
    /\ manifest_file.dim = live_dim
    /\ manifest_file.count = Len(embeddings_file.rows)
    /\ \E docs \in Batches \ {<<>>} :
          /\ metadata_file.recs = OneChunkRecords(docs)
          /\ embeddings_file.rows = [i \in 1..Len(metadata_file.recs) |->
                                        metadata_file.recs[i].content]

C25_BuildDropsLoaded ==
    [][(IngestBuild("t1") /\ DimChanged /\ pc'["t1"] = "i_save_emb") =>
          /\ loc'["t1"].emb.dim = live_dim
          /\ loc'["t1"].dim = live_dim
          /\ \E docs \in Batches \ {<<>>} :
                /\ loc'["t1"].meta.recs = OneChunkRecords(docs)
                /\ Len(loc'["t1"].emb.rows) = Len(OneChunkRecords(docs))]_vars

C25_ReturnedIngestPersistedBatch ==
    (/\ pc["t1"] = "idle"
     /\ ret["t1"].op = "ingest"
     /\ ret["t1"].how = "ok"
     /\ DimChanged) => BatchAloneOnDisk

C25_DimensionRebuild ==
    []C25_ReturnedIngestPersistedBatch /\ C25_BuildDropsLoaded

\* ingest loaded a store of one row at the fallback dimension, met vectors
\* of another dimension, and is about to save the batch alone
C25_Dropped ==
    /\ pc["t1"] = "i_save_emb"
    /\ DimChanged
    /\ embeddings_file = MatrixFile(<<"x">>, FALLBACK_DIM, 0)
    /\ Len(loc["t1"].emb.rows) = 1
    /\ loc["t1"].meta.recs[1].doc_id # "p"

\* the ingest of a two-document batch returned after a change of dimension
C25_Witness ==
    /\ pc["t1"] = "idle"
    /\ ret["t1"].op = "ingest"
    /\ ret["t1"].how = "ok"
    /\ DimChanged
    /\ BatchAloneOnDisk
    /\ Len(embeddings_file.rows) = 2
    /\ embeddings_file.ver = 1
    /\ n_calls = 1

(***************************************************************************)
(* C26: retrieve holds the store lock only while it copies the matrix and  *)
(* the records.  Whichever way the copy ends (copied, mismatch, exception) *)
(* the lock is free again when the copy step is over, so a retrieve that   *)
(* encodes, scores or has returned does not hold it, and an ingest or a    *)
(* clear_store can hold the lock while a retrieve is still encoding or     *)
(* scoring.                                                                *)
(***************************************************************************)
C26_CopyStepReleases ==
    [][\A t \in Threads : RetrieveLoad(t) => (store_lock = t /\ store_lock' = "free")]_vars

C26_NotHeldOutsideCopy ==
    \A t \in Threads :
        (store_lock = t /\ loc[t].op \notin {"ingest", "clear"}) => pc[t] = "r_load"

C26_RetrieveReleasesBeforeScoring ==
    []C26_NotHeldOutsideCopy /\ C26_CopyStepReleases

\* an ingest or a clear_store holds the lock while a retrieve is encoding
\* or scoring
C26_Witness ==
    \E t, u \in Threads :
        /\ pc[t] = "r_encode"
        /\ store_lock = u
        /\ pc[u] \in {"i_load", "c_emb"}

\* a retrieve gave up on a mismatched store and left the lock free
C26_GaveUpFree ==
    \E t \in Threads :
        /\ pc[t] = "idle"
        /\ ret[t].op = "retrieve"
        /\ ret[t].how \in {"mismatch", "error"}
        /\ store_lock = "free"

(***************************************************************************)
(* C27: every operation that takes the store lock releases it again, on    *)
(* its normal end, on the no-op return and on an exception, so no ingest   *)
(* holds the lock for ever and every call waiting for the lock gets it.    *)
(* A holder releases the lock if it is at a step that ends: the load, the  *)
(* writes of the save, the copy of retrieve and the unlinks of clear_store *)
(* all return or raise; the chunker loop of a content longer than          *)
(* CHUNK_SIZE does neither.                                                *)
(***************************************************************************)
\* the steps under the lock that return or raise
EndingSection ==
    {"i_load", "i_save_emb", "i_save_emb2", "i_save_meta", "i_save_man",
     "r_load", "c_emb", "c_meta"}

C27_HolderReleases ==
    \A t \in Threads : store_lock = t => pc[t] \in EndingSection

\* a call waits for the lock of an ingest that is inside the chunker
C27_WaitsForEver ==
    \E t, u \in Threads :
        /\ store_lock = t
        /\ pc[t] = "i_chunking"
        /\ pc[u] \in {"i_lock", "r_lock", "c_lock"}

(***************************************************************************)
(* C28: no lost updates.  When the ingest calls of a run have all returned *)
(* normally, with the provider's dimension the same throughout, the store  *)
(* holds the chunks of every batch, each batch together and in its own     *)
(* order, after what the store began with: the row count is the initial    *)
(* count plus the chunk counts of the batches.  Step by step: an ingest    *)
(* builds its store on top of what the last ingest that returned left on   *)
(* disk.                                                                   *)
(***************************************************************************)
\* the record lists a batch can add
BatchRecords == {OneChunkRecords(docs) : docs \in Batches} \ {<<>>}

\* the two calls of the run were ingests, and both saved and returned
TwoIngestsReturned ==
    /\ n_calls = 2
    /\ {1, 2} \subseteq completed
    /\ \A t \in Threads : pc[t] = "idle"

C28_BothBatchesStored ==
    TwoIngestsReturned =>
        /\ embeddings_file.kind = "matrix"
        /\ metadata_file.kind = "list"
        /\ Len(embeddings_file.rows) = Len(metadata_file.recs)
        /\ \E first \in {<<>>, <<ChunkRecord("p", 0, 1, "x")>>}, a, b \in BatchRecords :
              metadata_file.recs = first \o a \o b

\* the store on disk was left by an ingest of this run that returned
LeftByReturnedIngest ==
    /\ embeddings_file.kind = "matrix"
    /\ metadata_file.kind = "list"
    /\ embeddings_file.ver = metadata_file.ver
    /\ embeddings_file.ver \in completed \ {0}

C28_BuildsOnLastIngest ==
    [][\A t \in Threads :
          (BuildsStore(t) /\ LeftByReturnedIngest) =>
                /\ IsPrefix(OldRows, loc'[t].emb.rows)
                /\ IsPrefix(OldRecs, loc'[t].meta.recs)
                /\ Len(loc'[t].meta.recs) > Len(OldRecs)]_vars

C28_NoLostUpdates ==
    []C28_BothBatchesStored /\ C28_BuildsOnLastIngest

\* two ingests returned and the store holds one record
C28_UpdateLost ==
    /\ TwoIngestsReturned
    /\ \A t \in Threads : ret[t] = [op |-> "ingest", how |-> "ok"]
    /\ metadata_file.kind = "list"
    /\ Len(metadata_file.recs) = 1

(***************************************************************************)
(* C29: a retrieve that runs while clear_store runs, a clear between the   *)
(* existence test of retrieve and its load under the lock included, does   *)
(* not raise, and returns the empty list or results computed from the      *)
(* whole store as it was on disk: the copy it scores is the matrix and the *)
(* record list that were both on disk when it held the lock, no step of    *)
(* another thread changes that copy, and every result is a record of it.   *)
(* The retrieve is taken from its existence test on: the provider's model  *)
(* has loaded.                                                             *)
(***************************************************************************)
AfterModelLoaded == {"r_exists", "r_lock", "r_load", "r_encode"}

\* the retrieve of thread t returns
RetrieveReturns(t) ==
    /\ loc[t].op = "retrieve"
    /\ pc[t] \in AfterModelLoaded
    /\ pc'[t] = "idle"

\* every result is a record of the copy, with the row it was scored on
FromCopy(results, copy_emb, copy_meta) ==
    \A i \in 1..Len(results) :
        /\ results[i].idx \in 1..Len(copy_emb.rows)
        /\ results[i].id = copy_meta.recs[results[i].idx].id
        /\ results[i].content = copy_meta.recs[results[i].idx].content

C29_ResultsAfterClear ==
    \E t, u \in Threads :
        /\ n_calls = 2
        /\ pc[t] = "idle"
        /\ ret[t].op = "retrieve"
        /\ ret[t].how = "ok"
        /\ ret[t].results # <<>>
        /\ ret[u] = [op |-> "clear", how |-> "ok"]
        /\ NoStoreOnDisk

(***************************************************************************)
(* C30: retrieve is read-only on the persisted store.  No step of a        *)
(* retrieve, whatever its query, k and use_mmr, and whatever the store (a  *)
(* corrupted one and one of another dimension included, for which it       *)
(* returns the empty list), changes the embeddings, metadata or manifest   *)
(* file, so the files are after the call what they were before it; a step  *)
(* that changes a file is a step of ingest_documents or of clear_store.    *)
(***************************************************************************)
\* a step of the retrieve of thread t: the call itself, or any step after it
RetrieveStep(t) ==
    \/ /\ pc[t] = "idle"
       /\ n_calls' # n_calls
       /\ (loc'[t].op = "retrieve" \/ ret'[t].how = "empty_query")
    \/ /\ loc[t].op = "retrieve"
       /\ (pc'[t] # pc[t] \/ loc'[t] # loc[t])

C30_RetrieveReadOnly ==
    [][/\ RetrieveStep("t1") => fileVars' = fileVars
       /\ fileVars' # fileVars => loc["t1"].op \in {"ingest", "clear"}]_vars

\* a retrieve found a store it could not use (a half-written matrix, or one
\* of another dimension), returned the empty list, and the files are there
C30_Witness ==
    /\ pc["t1"] = "idle"
    /\ ret["t1"].op = "retrieve"
    /\ ret["t1"].how \in {"error", "mismatch"}
    /\ ret["t1"].results = <<>>
    /\ \/ embeddings_file = Partial
       \/ embeddings_file.kind = "matrix" /\ embeddings_file.dim # live_dim
    /\ metadata_file.kind = "list"

\* a retrieve returned results and the store is still on disk
C30_ResultsAndStore ==
    /\ pc["t1"] = "idle"
    /\ ret["t1"].op = "retrieve"
    /\ ret["t1"].how = "ok"
    /\ ret["t1"].results # <<>>
    /\ embeddings_file.kind = "matrix"
    /\ metadata_file.kind = "list"

====
